---- MODULE Spec2Model ----
(***************************************************************************)
(* A model of omni_content_validator/cli.py: the issue locator             *)
(* (_extract_by_path, _collect_content_issues, _extract_issues), the       *)
(* normalizer (_issue_identity, _issue_summary, _normalize_issues), the    *)
(* history differ (_partition_issues) and the run lifecycle of main.       *)
(*                                                                         *)
(* Values.  A JSON / Python value is a record [t, v]: t is the Python type *)
(* ("null", "bool", "int", "str", "list", "dict") and v its content.  A    *)
(* dict keeps its items as a sequence of <<key text, value>> pairs in      *)
(* insertion order, with distinct keys, as a Python dict does.             *)
(* Numbers are ints; a raised exception is a value of type "raise".        *)
(*                                                                         *)
(* Text.  A Python str is the sequence of its code points (naturals), so   *)
(* that comparison, whitespace and escaping are those of the characters.   *)
(***************************************************************************)
EXTENDS Integers, Sequences, FiniteSets

VARIABLES
    history_file,   \* the history file (--history-in = --history-out): Absent or its document
    report_file,    \* the report file (--report-out): Absent or its document
    exit_code,      \* the exit status of the last run; -1 before the first
    run_count,      \* the number of runs
    last_run,       \* log: arguments, payload and normalized issues of the last
                    \* run that completed
    prior_run,      \* log: the same for the completed run before it
    input,          \* function-level specifications: the arguments of the call
    output,         \* ... what the function returned
    pc              \* ... "call" before the function ran, "return" after; in the
                    \* run lifecycle "returned" after a run that completed and
                    \* "raised" after one that an exception ended

vars == <<history_file, report_file, exit_code, run_count, last_run, prior_run,
          input, output, pc>>

(***************************************************************************)
(* Python values                                                           *)
(***************************************************************************)
None == [t |-> "null", v |-> <<>>]
JBool(b) == [t |-> "bool", v |-> b]
JNum(n) == [t |-> "int", v |-> n]
JStr(text) == [t |-> "str", v |-> text]
JList(items) == [t |-> "list", v |-> items]
JDict(pairs) == [t |-> "dict", v |-> pairs]

isinstance_str(x) == x.t = "str"
isinstance_list(x) == x.t = "list"
isinstance_dict(x) == x.t = "dict"

\* bool(x): Python truthiness.
truthy(x) ==
    CASE x.t = "null" -> FALSE
      [] x.t = "bool" -> x.v
      [] x.t = "int" -> x.v # 0
      [] OTHER -> x.v # <<>>

\* `key in d`, d[key] and d.get(key) of a dict d.
contains(d, key) == \E i \in DOMAIN d.v : d.v[i][1] = key
getitem(d, key) == d.v[CHOOSE i \in DOMAIN d.v : d.v[i][1] = key][2]
get(d, key) == IF contains(d, key) THEN getitem(d, key) ELSE None
get_default(d, key, default) == IF contains(d, key) THEN getitem(d, key) ELSE default

len(x) == Len(x.v)

RECURSIVE concat(_)
concat(seqs) == IF seqs = <<>> THEN <<>> ELSE Head(seqs) \o concat(Tail(seqs))

\* seq[:n]
take(seq, n) == SubSeq(seq, 1, IF Len(seq) < n THEN Len(seq) ELSE n)

(***************************************************************************)
(* Python str operations                                                   *)
(***************************************************************************)
\* The printable ASCII characters in code point order: U+0020 to U+005F,
\* and U+0061 to U+007E.
AsciiLow == " !\"#$%&'()*+,-./0123456789:;<=>?@ABCDEFGHIJKLMNOPQRSTUVWXYZ[\\]^_"
AsciiHigh == "abcdefghijklmnopqrstuvwxyz{|}~"

CodePoint ==
    [c \in {SubSeq(AsciiLow, i, i) : i \in 1..Len(AsciiLow)}
           \cup {SubSeq(AsciiHigh, i, i) : i \in 1..Len(AsciiHigh)} |->
        IF \E i \in 1..Len(AsciiLow) : SubSeq(AsciiLow, i, i) = c
        THEN 31 + CHOOSE i \in 1..Len(AsciiLow) : SubSeq(AsciiLow, i, i) = c
        ELSE 96 + CHOOSE i \in 1..Len(AsciiHigh) : SubSeq(AsciiHigh, i, i) = c]

\* The str a string literal of the source denotes, as its code points.
chars(word) == [i \in 1..Len(word) |-> CodePoint[SubSeq(word, i, i)]]

\* A str value and a key, from a literal.
W(word) == JStr(chars(word))
K(word) == chars(word)

\* str.split(sep) for a separator of one character.
RECURSIVE split(_, _)
split(text, sep) ==
    IF \E i \in DOMAIN text : text[i] = sep[1]
    THEN LET i == CHOOSE j \in DOMAIN text :
                      text[j] = sep[1] /\ \A k \in 1..(j - 1) : text[k] # sep[1]
         IN <<SubSeq(text, 1, i - 1)>> \o split(SubSeq(text, i + 1, Len(text)), sep)
    ELSE <<text>>

\* The characters str.strip() removes: those str.isspace() holds of.
isspace(c) ==
    \/ c \in 9..13
    \/ c \in 28..32
    \/ c \in {133, 160, 5760, 8232, 8233, 8239, 8287, 12288}
    \/ c \in 8192..8202

\* str.strip(): leading and trailing whitespace removed.
RECURSIVE lstrip(_)
lstrip(text) ==
    IF text # <<>> /\ isspace(Head(text)) THEN lstrip(Tail(text)) ELSE text

RECURSIVE rstrip(_)
rstrip(text) ==
    IF text # <<>> /\ isspace(text[Len(text)])
    THEN rstrip(SubSeq(text, 1, Len(text) - 1))
    ELSE text

strip(text) == rstrip(lstrip(text))

\* sep.join(parts)
RECURSIVE join(_, _)
join(sep, parts) ==
    IF parts = <<>> THEN <<>>
    ELSE IF Len(parts) = 1 THEN parts[1]
    ELSE parts[1] \o sep \o join(sep, Tail(parts))

\* str(n) of an int: its decimal digits, after a minus sign if n < 0.
RECURSIVE int_str(_)
int_str(n) ==
    IF n < 0 THEN chars("-") \o int_str(0 - n)
    ELSE IF n < 10 THEN <<48 + n>>
    ELSE int_str(n \div 10) \o <<48 + (n % 10)>>

\* n in lower-case hexadecimal, on at least width digits.
RECURSIVE hex(_, _)
hex(n, width) ==
    IF n < 16 /\ width <= 1 THEN <<chars("0123456789abcdef")[n + 1]>>
    ELSE hex(n \div 16, width - 1) \o <<chars("0123456789abcdef")[(n % 16) + 1]>>

\* a < b for two str values: Python compares them code point by code point.
RECURSIVE str_lt(_, _)
str_lt(a, b) ==
    IF b = <<>> THEN FALSE
    ELSE IF a = <<>> THEN TRUE
    ELSE IF a[1] = b[1] THEN str_lt(Tail(a), Tail(b))
    ELSE a[1] < b[1]

\* sorted(d.items()) of a dict's items: ascending by key (keys are distinct).
RECURSIVE insort(_, _)
insort(sorted, pair) ==
    IF sorted = <<>> THEN <<pair>>
    ELSE IF str_lt(pair[1], Head(sorted)[1]) THEN <<pair>> \o sorted
    ELSE <<Head(sorted)>> \o insort(Tail(sorted), pair)

RECURSIVE sorted_items(_)
sorted_items(pairs) ==
    IF pairs = <<>> THEN <<>>
    ELSE insort(sorted_items(SubSeq(pairs, 1, Len(pairs) - 1)), pairs[Len(pairs)])

(***************************************************************************)
(* json.dumps, str() and repr()                                            *)
(***************************************************************************)
\* The JSON escape of one character of a string (ensure_ascii is on): the
\* short escapes, the character itself from U+0020 to U+007E, \uXXXX for
\* any other, as a surrogate pair above U+FFFF.
json_escape_char(c) ==
    CASE c = 34 -> chars("\\\"")
      [] c = 92 -> chars("\\\\")
      [] c = 10 -> chars("\\n")
      [] c = 13 -> chars("\\r")
      [] c = 9 -> chars("\\t")
      [] c = 8 -> chars("\\b")
      [] c = 12 -> chars("\\f")
      [] c \in 32..126 /\ c \notin {34, 92} -> <<c>>
      [] c > 65535 ->
            chars("\\u") \o hex(55296 + ((c - 65536) \div 1024), 4) \o
            chars("\\u") \o hex(56320 + ((c - 65536) % 1024), 4)
      [] OTHER -> chars("\\u") \o hex(c, 4)

json_encode_str(text) ==
    chars("\"") \o concat([i \in DOMAIN text |-> json_escape_char(text[i])])
    \o chars("\"")

\* json.dumps(x, sort_keys=sort_keys, separators=(item_sep, key_sep)).
RECURSIVE json_dumps(_, _, _, _)
json_dumps(x, sort_keys, item_sep, key_sep) ==
    CASE x.t = "null" -> chars("null")
      [] x.t = "bool" -> IF x.v THEN chars("true") ELSE chars("false")
      [] x.t = "int" -> int_str(x.v)
      [] x.t = "str" -> json_encode_str(x.v)
      [] x.t = "list" ->
            chars("[") \o
            join(item_sep,
                 [i \in DOMAIN x.v |-> json_dumps(x.v[i], sort_keys, item_sep, key_sep)])
            \o chars("]")
      [] x.t = "dict" ->
            LET items == IF sort_keys THEN sorted_items(x.v) ELSE x.v
            IN chars("{") \o
               join(item_sep,
                    [i \in DOMAIN items |->
                        json_encode_str(items[i][1]) \o key_sep \o
                        json_dumps(items[i][2], sort_keys, item_sep, key_sep)])
               \o chars("}")

\* The separators json.dumps uses by default, and the compact ones.
DefaultItemSep == chars(", ")
DefaultKeySep == chars(": ")
CompactItemSep == chars(",")
CompactKeySep == chars(":")

\* The ranges of the code points from U+0080 on that str.isprintable() does
\* not hold of (CPython 3.11, Unicode 14.0.0).
NonPrintable ==
    << <<127, 160>>,  <<173, 173>>,  <<888, 889>>,  <<896, 899>>,
        <<907, 907>>,  <<909, 909>>,  <<930, 930>>,  <<1328, 1328>>,
        <<1367, 1368>>,  <<1419, 1420>>,  <<1424, 1424>>,  <<1480, 1487>>,
        <<1515, 1518>>,  <<1525, 1541>>,  <<1564, 1564>>,  <<1757, 1757>>,
        <<1806, 1807>>,  <<1867, 1868>>,  <<1970, 1983>>,  <<2043, 2044>>,
        <<2094, 2095>>,  <<2111, 2111>>,  <<2140, 2141>>,  <<2143, 2143>>,
        <<2155, 2159>>,  <<2191, 2199>>,  <<2274, 2274>>,  <<2436, 2436>>,
        <<2445, 2446>>,  <<2449, 2450>>,  <<2473, 2473>>,  <<2481, 2481>>,
        <<2483, 2485>>,  <<2490, 2491>>,  <<2501, 2502>>,  <<2505, 2506>>,
        <<2511, 2518>>,  <<2520, 2523>>,  <<2526, 2526>>,  <<2532, 2533>>,
        <<2559, 2560>>,  <<2564, 2564>>,  <<2571, 2574>>,  <<2577, 2578>>,
        <<2601, 2601>>,  <<2609, 2609>>,  <<2612, 2612>>,  <<2615, 2615>>,
        <<2618, 2619>>,  <<2621, 2621>>,  <<2627, 2630>>,  <<2633, 2634>>,
        <<2638, 2640>>,  <<2642, 2648>>,  <<2653, 2653>>,  <<2655, 2661>>,
        <<2679, 2688>>,  <<2692, 2692>>,  <<2702, 2702>>,  <<2706, 2706>>,
        <<2729, 2729>>,  <<2737, 2737>>,  <<2740, 2740>>,  <<2746, 2747>>,
        <<2758, 2758>>,  <<2762, 2762>>,  <<2766, 2767>>,  <<2769, 2783>>,
        <<2788, 2789>>,  <<2802, 2808>>,  <<2816, 2816>>,  <<2820, 2820>>,
        <<2829, 2830>>,  <<2833, 2834>>,  <<2857, 2857>>,  <<2865, 2865>>,
        <<2868, 2868>>,  <<2874, 2875>>,  <<2885, 2886>>,  <<2889, 2890>>,
        <<2894, 2900>>,  <<2904, 2907>>,  <<2910, 2910>>,  <<2916, 2917>>,
        <<2936, 2945>>,  <<2948, 2948>>,  <<2955, 2957>>,  <<2961, 2961>>,
        <<2966, 2968>>,  <<2971, 2971>>,  <<2973, 2973>>,  <<2976, 2978>>,
        <<2981, 2983>>,  <<2987, 2989>>,  <<3002, 3005>>,  <<3011, 3013>>,
        <<3017, 3017>>,  <<3022, 3023>>,  <<3025, 3030>>,  <<3032, 3045>>,
        <<3067, 3071>>,  <<3085, 3085>>,  <<3089, 3089>>,  <<3113, 3113>>,
        <<3130, 3131>>,  <<3141, 3141>>,  <<3145, 3145>>,  <<3150, 3156>>,
        <<3159, 3159>>,  <<3163, 3164>>,  <<3166, 3167>>,  <<3172, 3173>>,
        <<3184, 3190>>,  <<3213, 3213>>,  <<3217, 3217>>,  <<3241, 3241>>,
        <<3252, 3252>>,  <<3258, 3259>>,  <<3269, 3269>>,  <<3273, 3273>>,
        <<3278, 3284>>,  <<3287, 3292>>,  <<3295, 3295>>,  <<3300, 3301>>,
        <<3312, 3312>>,  <<3315, 3327>>,  <<3341, 3341>>,  <<3345, 3345>>,
        <<3397, 3397>>,  <<3401, 3401>>,  <<3408, 3411>>,  <<3428, 3429>>,
        <<3456, 3456>>,  <<3460, 3460>>,  <<3479, 3481>>,  <<3506, 3506>>,
        <<3516, 3516>>,  <<3518, 3519>>,  <<3527, 3529>>,  <<3531, 3534>>,
        <<3541, 3541>>,  <<3543, 3543>>,  <<3552, 3557>>,  <<3568, 3569>>,
        <<3573, 3584>>,  <<3643, 3646>>,  <<3676, 3712>>,  <<3715, 3715>>,
        <<3717, 3717>>,  <<3723, 3723>>,  <<3748, 3748>>,  <<3750, 3750>>,
        <<3774, 3775>>,  <<3781, 3781>>,  <<3783, 3783>>,  <<3790, 3791>>,
        <<3802, 3803>>,  <<3808, 3839>>,  <<3912, 3912>>,  <<3949, 3952>>,
        <<3992, 3992>>,  <<4029, 4029>>,  <<4045, 4045>>,  <<4059, 4095>>,
        <<4294, 4294>>,  <<4296, 4300>>,  <<4302, 4303>>,  <<4681, 4681>>,
        <<4686, 4687>>,  <<4695, 4695>>,  <<4697, 4697>>,  <<4702, 4703>>,
        <<4745, 4745>>,  <<4750, 4751>>,  <<4785, 4785>>,  <<4790, 4791>>,
        <<4799, 4799>>,  <<4801, 4801>>,  <<4806, 4807>>,  <<4823, 4823>>,
        <<4881, 4881>>,  <<4886, 4887>>,  <<4955, 4956>>,  <<4989, 4991>>,
        <<5018, 5023>>,  <<5110, 5111>>,  <<5118, 5119>>,  <<5760, 5760>>,
        <<5789, 5791>>,  <<5881, 5887>>,  <<5910, 5918>>,  <<5943, 5951>>,
        <<5972, 5983>>,  <<5997, 5997>>,  <<6001, 6001>>,  <<6004, 6015>>,
        <<6110, 6111>>,  <<6122, 6127>>,  <<6138, 6143>>,  <<6158, 6158>>,
        <<6170, 6175>>,  <<6265, 6271>>,  <<6315, 6319>>,  <<6390, 6399>>,
        <<6431, 6431>>,  <<6444, 6447>>,  <<6460, 6463>>,  <<6465, 6467>>,
        <<6510, 6511>>,  <<6517, 6527>>,  <<6572, 6575>>,  <<6602, 6607>>,
        <<6619, 6621>>,  <<6684, 6685>>,  <<6751, 6751>>,  <<6781, 6782>>,
        <<6794, 6799>>,  <<6810, 6815>>,  <<6830, 6831>>,  <<6863, 6911>>,
        <<6989, 6991>>,  <<7039, 7039>>,  <<7156, 7163>>,  <<7224, 7226>>,
        <<7242, 7244>>,  <<7305, 7311>>,  <<7355, 7356>>,  <<7368, 7375>>,
        <<7419, 7423>>,  <<7958, 7959>>,  <<7966, 7967>>,  <<8006, 8007>>,
        <<8014, 8015>>,  <<8024, 8024>>,  <<8026, 8026>>,  <<8028, 8028>>,
        <<8030, 8030>>,  <<8062, 8063>>,  <<8117, 8117>>,  <<8133, 8133>>,
        <<8148, 8149>>,  <<8156, 8156>>,  <<8176, 8177>>,  <<8181, 8181>>,
        <<8191, 8207>>,  <<8232, 8239>>,  <<8287, 8303>>,  <<8306, 8307>>,
        <<8335, 8335>>,  <<8349, 8351>>,  <<8385, 8399>>,  <<8433, 8447>>,
        <<8588, 8591>>,  <<9255, 9279>>,  <<9291, 9311>>,  <<11124, 11125>>,
        <<11158, 11158>>,  <<11508, 11512>>,  <<11558, 11558>>,
        <<11560, 11564>>,  <<11566, 11567>>,  <<11624, 11630>>,
        <<11633, 11646>>,  <<11671, 11679>>,  <<11687, 11687>>,
        <<11695, 11695>>,  <<11703, 11703>>,  <<11711, 11711>>,
        <<11719, 11719>>,  <<11727, 11727>>,  <<11735, 11735>>,
        <<11743, 11743>>,  <<11870, 11903>>,  <<11930, 11930>>,
        <<12020, 12031>>,  <<12246, 12271>>,  <<12284, 12288>>,
        <<12352, 12352>>,  <<12439, 12440>>,  <<12544, 12548>>,
        <<12592, 12592>>,  <<12687, 12687>>,  <<12772, 12783>>,
        <<12831, 12831>>,  <<42125, 42127>>,  <<42183, 42191>>,
        <<42540, 42559>>,  <<42744, 42751>>,  <<42955, 42959>>,
        <<42962, 42962>>,  <<42964, 42964>>,  <<42970, 42993>>,
        <<43053, 43055>>,  <<43066, 43071>>,  <<43128, 43135>>,
        <<43206, 43213>>,  <<43226, 43231>>,  <<43348, 43358>>,
        <<43389, 43391>>,  <<43470, 43470>>,  <<43482, 43485>>,
        <<43519, 43519>>,  <<43575, 43583>>,  <<43598, 43599>>,
        <<43610, 43611>>,  <<43715, 43738>>,  <<43767, 43776>>,
        <<43783, 43784>>,  <<43791, 43792>>,  <<43799, 43807>>,
        <<43815, 43815>>,  <<43823, 43823>>,  <<43884, 43887>>,
        <<44014, 44015>>,  <<44026, 44031>>,  <<55204, 55215>>,
        <<55239, 55242>>,  <<55292, 63743>>,  <<64110, 64111>>,
        <<64218, 64255>>,  <<64263, 64274>>,  <<64280, 64284>>,
        <<64311, 64311>>,  <<64317, 64317>>,  <<64319, 64319>>,
        <<64322, 64322>>,  <<64325, 64325>>,  <<64451, 64466>>,
        <<64912, 64913>>,  <<64968, 64974>>,  <<64976, 65007>>,
        <<65050, 65055>>,  <<65107, 65107>>,  <<65127, 65127>>,
        <<65132, 65135>>,  <<65141, 65141>>,  <<65277, 65280>>,
        <<65471, 65473>>,  <<65480, 65481>>,  <<65488, 65489>>,
        <<65496, 65497>>,  <<65501, 65503>>,  <<65511, 65511>>,
        <<65519, 65531>>,  <<65534, 65535>>,  <<65548, 65548>>,
        <<65575, 65575>>,  <<65595, 65595>>,  <<65598, 65598>>,
        <<65614, 65615>>,  <<65630, 65663>>,  <<65787, 65791>>,
        <<65795, 65798>>,  <<65844, 65846>>,  <<65935, 65935>>,
        <<65949, 65951>>,  <<65953, 65999>>,  <<66046, 66175>>,
        <<66205, 66207>>,  <<66257, 66271>>,  <<66300, 66303>>,
        <<66340, 66348>>,  <<66379, 66383>>,  <<66427, 66431>>,
        <<66462, 66462>>,  <<66500, 66503>>,  <<66518, 66559>>,
        <<66718, 66719>>,  <<66730, 66735>>,  <<66772, 66775>>,
        <<66812, 66815>>,  <<66856, 66863>>,  <<66916, 66926>>,
        <<66939, 66939>>,  <<66955, 66955>>,  <<66963, 66963>>,
        <<66966, 66966>>,  <<66978, 66978>>,  <<66994, 66994>>,
        <<67002, 67002>>,  <<67005, 67071>>,  <<67383, 67391>>,
        <<67414, 67423>>,  <<67432, 67455>>,  <<67462, 67462>>,
        <<67505, 67505>>,  <<67515, 67583>>,  <<67590, 67591>>,
        <<67593, 67593>>,  <<67638, 67638>>,  <<67641, 67643>>,
        <<67645, 67646>>,  <<67670, 67670>>,  <<67743, 67750>>,
        <<67760, 67807>>,  <<67827, 67827>>,  <<67830, 67834>>,
        <<67868, 67870>>,  <<67898, 67902>>,  <<67904, 67967>>,
        <<68024, 68027>>,  <<68048, 68049>>,  <<68100, 68100>>,
        <<68103, 68107>>,  <<68116, 68116>>,  <<68120, 68120>>,
        <<68150, 68151>>,  <<68155, 68158>>,  <<68169, 68175>>,
        <<68185, 68191>>,  <<68256, 68287>>,  <<68327, 68330>>,
        <<68343, 68351>>,  <<68406, 68408>>,  <<68438, 68439>>,
        <<68467, 68471>>,  <<68498, 68504>>,  <<68509, 68520>>,
        <<68528, 68607>>,  <<68681, 68735>>,  <<68787, 68799>>,
        <<68851, 68857>>,  <<68904, 68911>>,  <<68922, 69215>>,
        <<69247, 69247>>,  <<69290, 69290>>,  <<69294, 69295>>,
        <<69298, 69375>>,  <<69416, 69423>>,  <<69466, 69487>>,
        <<69514, 69551>>,  <<69580, 69599>>,  <<69623, 69631>>,
        <<69710, 69713>>,  <<69750, 69758>>,  <<69821, 69821>>,
        <<69827, 69839>>,  <<69865, 69871>>,  <<69882, 69887>>,
        <<69941, 69941>>,  <<69960, 69967>>,  <<70007, 70015>>,
        <<70112, 70112>>,  <<70133, 70143>>,  <<70162, 70162>>,
        <<70207, 70271>>,  <<70279, 70279>>,  <<70281, 70281>>,
        <<70286, 70286>>,  <<70302, 70302>>,  <<70314, 70319>>,
        <<70379, 70383>>,  <<70394, 70399>>,  <<70404, 70404>>,
        <<70413, 70414>>,  <<70417, 70418>>,  <<70441, 70441>>,
        <<70449, 70449>>,  <<70452, 70452>>,  <<70458, 70458>>,
        <<70469, 70470>>,  <<70473, 70474>>,  <<70478, 70479>>,
        <<70481, 70486>>,  <<70488, 70492>>,  <<70500, 70501>>,
        <<70509, 70511>>,  <<70517, 70655>>,  <<70748, 70748>>,
        <<70754, 70783>>,  <<70856, 70863>>,  <<70874, 71039>>,
        <<71094, 71095>>,  <<71134, 71167>>,  <<71237, 71247>>,
        <<71258, 71263>>,  <<71277, 71295>>,  <<71354, 71359>>,
        <<71370, 71423>>,  <<71451, 71452>>,  <<71468, 71471>>,
        <<71495, 71679>>,  <<71740, 71839>>,  <<71923, 71934>>,
        <<71943, 71944>>,  <<71946, 71947>>,  <<71956, 71956>>,
        <<71959, 71959>>,  <<71990, 71990>>,  <<71993, 71994>>,
        <<72007, 72015>>,  <<72026, 72095>>,  <<72104, 72105>>,
        <<72152, 72153>>,  <<72165, 72191>>,  <<72264, 72271>>,
        <<72355, 72367>>,  <<72441, 72703>>,  <<72713, 72713>>,
        <<72759, 72759>>,  <<72774, 72783>>,  <<72813, 72815>>,
        <<72848, 72849>>,  <<72872, 72872>>,  <<72887, 72959>>,
        <<72967, 72967>>,  <<72970, 72970>>,  <<73015, 73017>>,
        <<73019, 73019>>,  <<73022, 73022>>,  <<73032, 73039>>,
        <<73050, 73055>>,  <<73062, 73062>>,  <<73065, 73065>>,
        <<73103, 73103>>,  <<73106, 73106>>,  <<73113, 73119>>,
        <<73130, 73439>>,  <<73465, 73647>>,  <<73649, 73663>>,
        <<73714, 73726>>,  <<74650, 74751>>,  <<74863, 74863>>,
        <<74869, 74879>>,  <<75076, 77711>>,  <<77811, 77823>>,
        <<78895, 82943>>,  <<83527, 92159>>,  <<92729, 92735>>,
        <<92767, 92767>>,  <<92778, 92781>>,  <<92863, 92863>>,
        <<92874, 92879>>,  <<92910, 92911>>,  <<92918, 92927>>,
        <<92998, 93007>>,  <<93018, 93018>>,  <<93026, 93026>>,
        <<93048, 93052>>,  <<93072, 93759>>,  <<93851, 93951>>,
        <<94027, 94030>>,  <<94088, 94094>>,  <<94112, 94175>>,
        <<94181, 94191>>,  <<94194, 94207>>,  <<100344, 100351>>,
        <<101590, 101631>>,  <<101641, 110575>>,  <<110580, 110580>>,
        <<110588, 110588>>,  <<110591, 110591>>,  <<110883, 110927>>,
        <<110931, 110947>>,  <<110952, 110959>>,  <<111356, 113663>>,
        <<113771, 113775>>,  <<113789, 113791>>,  <<113801, 113807>>,
        <<113818, 113819>>,  <<113824, 118527>>,  <<118574, 118575>>,
        <<118599, 118607>>,  <<118724, 118783>>,  <<119030, 119039>>,
        <<119079, 119080>>,  <<119155, 119162>>,  <<119275, 119295>>,
        <<119366, 119519>>,  <<119540, 119551>>,  <<119639, 119647>>,
        <<119673, 119807>>,  <<119893, 119893>>,  <<119965, 119965>>,
        <<119968, 119969>>,  <<119971, 119972>>,  <<119975, 119976>>,
        <<119981, 119981>>,  <<119994, 119994>>,  <<119996, 119996>>,
        <<120004, 120004>>,  <<120070, 120070>>,  <<120075, 120076>>,
        <<120085, 120085>>,  <<120093, 120093>>,  <<120122, 120122>>,
        <<120127, 120127>>,  <<120133, 120133>>,  <<120135, 120137>>,
        <<120145, 120145>>,  <<120486, 120487>>,  <<120780, 120781>>,
        <<121484, 121498>>,  <<121504, 121504>>,  <<121520, 122623>>,
        <<122655, 122879>>,  <<122887, 122887>>,  <<122905, 122906>>,
        <<122914, 122914>>,  <<122917, 122917>>,  <<122923, 123135>>,
        <<123181, 123183>>,  <<123198, 123199>>,  <<123210, 123213>>,
        <<123216, 123535>>,  <<123567, 123583>>,  <<123642, 123646>>,
        <<123648, 124895>>,  <<124903, 124903>>,  <<124908, 124908>>,
        <<124911, 124911>>,  <<124927, 124927>>,  <<125125, 125126>>,
        <<125143, 125183>>,  <<125260, 125263>>,  <<125274, 125277>>,
        <<125280, 126064>>,  <<126133, 126208>>,  <<126270, 126463>>,
        <<126468, 126468>>,  <<126496, 126496>>,  <<126499, 126499>>,
        <<126501, 126502>>,  <<126504, 126504>>,  <<126515, 126515>>,
        <<126520, 126520>>,  <<126522, 126522>>,  <<126524, 126529>>,
        <<126531, 126534>>,  <<126536, 126536>>,  <<126538, 126538>>,
        <<126540, 126540>>,  <<126544, 126544>>,  <<126547, 126547>>,
        <<126549, 126550>>,  <<126552, 126552>>,  <<126554, 126554>>,
        <<126556, 126556>>,  <<126558, 126558>>,  <<126560, 126560>>,
        <<126563, 126563>>,  <<126565, 126566>>,  <<126571, 126571>>,
        <<126579, 126579>>,  <<126584, 126584>>,  <<126589, 126589>>,
        <<126591, 126591>>,  <<126602, 126602>>,  <<126620, 126624>>,
        <<126628, 126628>>,  <<126634, 126634>>,  <<126652, 126703>>,
        <<126706, 126975>>,  <<127020, 127023>>,  <<127124, 127135>>,
        <<127151, 127152>>,  <<127168, 127168>>,  <<127184, 127184>>,
        <<127222, 127231>>,  <<127406, 127461>>,  <<127491, 127503>>,
        <<127548, 127551>>,  <<127561, 127567>>,  <<127570, 127583>>,
        <<127590, 127743>>,  <<128728, 128732>>,  <<128749, 128751>>,
        <<128765, 128767>>,  <<128884, 128895>>,  <<128985, 128991>>,
        <<129004, 129007>>,  <<129009, 129023>>,  <<129036, 129039>>,
        <<129096, 129103>>,  <<129114, 129119>>,  <<129160, 129167>>,
        <<129198, 129199>>,  <<129202, 129279>>,  <<129620, 129631>>,
        <<129646, 129647>>,  <<129653, 129655>>,  <<129661, 129663>>,
        <<129671, 129679>>,  <<129709, 129711>>,  <<129723, 129727>>,
        <<129734, 129743>>,  <<129754, 129759>>,  <<129768, 129775>>,
        <<129783, 129791>>,  <<129939, 129939>>,  <<129995, 130031>>,
        <<130042, 131071>>,  <<173792, 173823>>,  <<177977, 177983>>,
        <<178206, 178207>>,  <<183970, 183983>>,  <<191457, 194559>>,
        <<195102, 196607>>,  <<201547, 917759>>,  <<918000, 1114111>> >>

\* str.isprintable() of one character.
isprintable(c) ==
    IF c < 128 THEN c \in 32..126
    ELSE \A i \in DOMAIN NonPrintable : c < NonPrintable[i][1] \/ c > NonPrintable[i][2]

\* repr(s) of a str: single quotes, unless s holds a single quote and no
\* double quote; a character that is not printable is escaped.
repr_escape_char(c, quote) ==
    CASE c = 92 \/ c = quote -> <<92, c>>
      [] c = 10 -> chars("\\n")
      [] c = 13 -> chars("\\r")
      [] c = 9 -> chars("\\t")
      [] c \notin {92, quote, 10, 13, 9} /\ isprintable(c) -> <<c>>
      [] c \notin {10, 13, 9} /\ ~isprintable(c) /\ c < 256 -> chars("\\x") \o hex(c, 2)
      [] ~isprintable(c) /\ c \in 256..65535 -> chars("\\u") \o hex(c, 4)
      [] ~isprintable(c) /\ c > 65535 -> chars("\\U") \o hex(c, 8)

repr_str(text) ==
    LET has(c) == \E i \in DOMAIN text : text[i] = c
        quote == IF has(39) /\ ~has(34) THEN 34 ELSE 39
    IN <<quote>> \o concat([i \in DOMAIN text |-> repr_escape_char(text[i], quote)])
       \o <<quote>>

\* repr(x); str(x) is repr(x) for every type but str.
RECURSIVE repr(_)
repr(x) ==
    CASE x.t = "null" -> chars("None")
      [] x.t = "bool" -> IF x.v THEN chars("True") ELSE chars("False")
      [] x.t = "int" -> int_str(x.v)
      [] x.t = "str" -> repr_str(x.v)
      [] x.t = "list" ->
            chars("[") \o join(chars(", "), [i \in DOMAIN x.v |-> repr(x.v[i])])
            \o chars("]")
      [] x.t = "dict" ->
            chars("{") \o
            join(chars(", "),
                 [i \in DOMAIN x.v |->
                     repr_str(x.v[i][1]) \o chars(": ") \o repr(x.v[i][2])])
            \o chars("}")

str(x) == IF x.t = "str" THEN x.v ELSE repr(x)

\* What a call gives when it raises instead of returning.
UnicodeEncodeError == [t |-> "raise", v |-> chars("UnicodeEncodeError")]

\* text.encode("utf-8") succeeds: text holds no surrogate (U+D800 to U+DFFF).
\* json.loads yields a lone surrogate for an escape such as "\ud800".
utf8_encodable(text) == \A i \in DOMAIN text : text[i] \notin 55296..57343

\* hashlib.sha256(data).hexdigest(): the digest is modelled as its preimage
\* under a marker, i.e. the hash is taken to be injective.
sha256_hexdigest(text) == chars("sha256:") \o text

(***************************************************************************)
(* The issue locator                                                       *)
(***************************************************************************)
\* Faulty variant of _extract_by_path_loop: the final value is returned whatever its type.
RECURSIVE _extract_by_path_loop_any_type(_, _)
_extract_by_path_loop_any_type(current, parts) ==
    IF parts = <<>> THEN current
    ELSE IF isinstance_dict(current) /\ contains(current, Head(parts))
         THEN _extract_by_path_loop_any_type(getitem(current, Head(parts)), Tail(parts))
         ELSE None

\* The loop of _extract_by_path over the parts of the path, and what follows it.
RECURSIVE _extract_by_path_loop(_, _)
_extract_by_path_loop(current, parts) ==
    IF parts = <<>>
    THEN IF isinstance_list(current) THEN current ELSE None
    ELSE IF isinstance_dict(current) /\ contains(current, Head(parts))
         THEN _extract_by_path_loop(getitem(current, Head(parts)), Tail(parts))
         ELSE None

\* path is None or a str.
_extract_by_path(payload, path) ==
    IF ~truthy(path) THEN None
    ELSE _extract_by_path_loop(payload, split(path.v, chars(".")))

\* document.get("folder", {}).get(key) if isinstance(document.get("folder"), dict) else None
folder_field(document, key) ==
    IF isinstance_dict(get(document, K("folder")))
    THEN get(get_default(document, K("folder"), JDict(<<>>)), key)
    ELSE None

doc_context(document) ==
    << <<K("document_id"), get(document, K("document_id"))>>,
       <<K("document_name"), get(document, K("name"))>>,
       <<K("document_type"), get(document, K("type"))>>,
       <<K("folder_name"), folder_field(document, K("name"))>>,
       <<K("folder_path"), folder_field(document, K("path"))>> >>

item_message(item) ==
    IF isinstance_dict(item) THEN get(item, K("message")) ELSE item

\* The records appended for a document's dashboard_filter_issues.
dashboard_records(document) ==
    LET dashboard_issues == get(document, K("dashboard_filter_issues"))
    IN IF isinstance_list(dashboard_issues)
       THEN [i \in DOMAIN dashboard_issues.v |->
                JDict(<< <<K("message"), item_message(dashboard_issues.v[i])>>,
                         <<K("raw_issue"), dashboard_issues.v[i]>>,
                         <<K("issue_type"), W("dashboard_filter")>> >>
                      \o doc_context(document))]
       ELSE <<>>

\* The records appended for one element of a document's queries_and_issues.
query_records(document, query) ==
    IF ~isinstance_dict(query) THEN <<>>
    ELSE LET query_issues == get(query, K("issues"))
         IN IF isinstance_list(query_issues)
            THEN [i \in DOMAIN query_issues.v |->
                     JDict(<< <<K("message"), item_message(query_issues.v[i])>>,
                              <<K("raw_issue"), query_issues.v[i]>>,
                              <<K("issue_type"), W("query")>>,
                              <<K("query_name"), get(query, K("query_name"))>>,
                              <<K("query_presentation_id"),
                                get(query, K("query_presentation_id"))>> >>
                           \o doc_context(document))]
            ELSE <<>>

\* Faulty variant of document_records: the query records come first.
document_records_queries_first(document) ==
    IF ~isinstance_dict(document) THEN <<>>
    ELSE LET queries == get(document, K("queries_and_issues"))
         IN (IF ~isinstance_list(queries) THEN <<>>
             ELSE concat([i \in DOMAIN queries.v |-> query_records(document, queries.v[i])]))
            \o dashboard_records(document)

\* The records appended for one element of content.
document_records(document) ==
    IF ~isinstance_dict(document) THEN <<>>
    ELSE LET queries == get(document, K("queries_and_issues"))
         IN dashboard_records(document) \o
            (IF ~isinstance_list(queries) THEN <<>>
             ELSE concat([i \in DOMAIN queries.v |-> query_records(document, queries.v[i])]))

_collect_content_issues(payload) ==
    LET content == get(payload, K("content"))
    IN IF ~isinstance_list(content) THEN JList(<<>>)
       ELSE JList(concat([i \in DOMAIN content.v |-> document_records(content.v[i])]))

\* Faulty variant of first_list_value: the loop stops at the first key that is present.
RECURSIVE first_list_value_first_present(_, _)
first_list_value_first_present(payload, keys) ==
    IF keys = <<>> THEN None
    ELSE IF contains(payload, Head(keys))
         THEN IF isinstance_list(get(payload, Head(keys)))
              THEN get(payload, Head(keys)) ELSE None
    ELSE first_list_value_first_present(payload, Tail(keys))

\* for key in keys: value = payload.get(key); if isinstance(value, list): return value
\* None when the loop ends without returning.
RECURSIVE first_list_value(_, _)
first_list_value(payload, keys) ==
    IF keys = <<>> THEN None
    ELSE IF isinstance_list(get(payload, Head(keys))) THEN get(payload, Head(keys))
    ELSE first_list_value(payload, Tail(keys))

IssueKeys == <<K("issues"), K("validation_issues"), K("errors")>>
ContainerKeys == <<K("content"), K("documents"), K("items"), K("results")>>

\* Faulty variant of _extract_issues: `if by_path:` in place of `if by_path is not None:`.
_extract_issues_truthy_match(payload, issues_path) ==
    LET by_path == _extract_by_path(payload, issues_path)
        issue_value == first_list_value(payload, IssueKeys)
        collected == _collect_content_issues(payload)
        container_value == first_list_value(payload, ContainerKeys)
    IN IF truthy(by_path) THEN by_path
       ELSE IF isinstance_list(payload) THEN payload
       ELSE IF ~isinstance_dict(payload) THEN JList(<<>>)
       ELSE IF issue_value # None THEN issue_value
       ELSE IF contains(payload, K("content")) /\ truthy(collected) THEN collected
       ELSE IF container_value # None THEN container_value
       ELSE JList(<<>>)

_extract_issues(payload, issues_path) ==
    LET by_path == _extract_by_path(payload, issues_path)
        issue_value == first_list_value(payload, IssueKeys)
        collected == _collect_content_issues(payload)
        container_value == first_list_value(payload, ContainerKeys)
    IN IF by_path # None THEN by_path
       ELSE IF isinstance_list(payload) THEN payload
       ELSE IF ~isinstance_dict(payload) THEN JList(<<>>)
       ELSE IF issue_value # None THEN issue_value
       ELSE IF contains(payload, K("content")) /\ truthy(collected) THEN collected
       ELSE IF container_value # None THEN container_value
       ELSE JList(<<>>)

(***************************************************************************)
(* The issue normalizer                                                    *)
(***************************************************************************)
\* The text _issue_identity hashes.  json.dumps raises no TypeError on a value
\* that json parsed, so the except branch is never taken.
identity_value(issue) ==
    IF isinstance_str(issue) THEN issue.v
    ELSE json_dumps(issue, TRUE, CompactItemSep, CompactKeySep)

\* The digest as a text, or UnicodeEncodeError when the encoding raises.
_issue_identity(issue) ==
    IF utf8_encodable(identity_value(issue))
    THEN sha256_hexdigest(identity_value(issue))
    ELSE UnicodeEncodeError

\* Faulty variant of message_summary: the prefix parts are not stripped.
message_summary_unstripped(issue, message) ==
    LET doc_name == get(issue, K("document_name"))
        query_name == get(issue, K("query_name"))
        prefix_parts ==
            (IF isinstance_str(doc_name) /\ strip(doc_name.v) # <<>>
             THEN <<doc_name.v>> ELSE <<>>)
            \o
            (IF isinstance_str(query_name) /\ strip(query_name.v) # <<>>
             THEN <<query_name.v>> ELSE <<>>)
        prefix == join(chars(" / "), prefix_parts)
    IN IF prefix # <<>> THEN prefix \o chars(": ") \o message ELSE message

\* The part of _issue_summary that handles a dict with a usable message.
message_summary(issue, message) ==
    LET doc_name == get(issue, K("document_name"))
        query_name == get(issue, K("query_name"))
        prefix_parts ==
            (IF isinstance_str(doc_name) /\ strip(doc_name.v) # <<>>
             THEN <<strip(doc_name.v)>> ELSE <<>>)
            \o
            (IF isinstance_str(query_name) /\ strip(query_name.v) # <<>>
             THEN <<strip(query_name.v)>> ELSE <<>>)
        prefix == join(chars(" / "), prefix_parts)
    IN IF prefix # <<>> THEN prefix \o chars(": ") \o message ELSE message

\* for key in ("title", "name", "path", "field"): the first value that is a
\* str with a non-blank text; None when there is none.
RECURSIVE first_label(_, _)
first_label(issue, keys) ==
    IF keys = <<>> THEN None
    ELSE LET value == get(issue, Head(keys))
         IN IF isinstance_str(value) /\ strip(value.v) # <<>> THEN value
            ELSE first_label(issue, Tail(keys))

LabelKeys == <<K("title"), K("name"), K("path"), K("field")>>

_issue_summary(issue) ==
    IF isinstance_str(issue) THEN issue.v
    ELSE IF isinstance_dict(issue)
    THEN LET raw_message == get(issue, K("message"))
             message == IF raw_message # None /\ ~isinstance_str(raw_message)
                        THEN JStr(str(raw_message)) ELSE raw_message
         IN IF isinstance_str(message) /\ strip(message.v) # <<>>
            THEN message_summary(issue, message.v)
            ELSE IF first_label(issue, LabelKeys) # None
            THEN first_label(issue, LabelKeys).v
            ELSE json_dumps(issue, TRUE, DefaultItemSep, DefaultKeySep)
    ELSE str(issue)

normalized_issue(issue) ==
    JDict(<< <<K("id"), JStr(_issue_identity(issue))>>,
             <<K("summary"), JStr(_issue_summary(issue))>>,
             <<K("raw"), issue>> >>)

\* The list of the normalized issues; the exception of _issue_identity, if
\* it raises on one of the issues, passes through.
_normalize_issues(issues) ==
    IF \E i \in DOMAIN issues.v : _issue_identity(issues.v[i]) = UnicodeEncodeError
    THEN UnicodeEncodeError
    ELSE JList([i \in DOMAIN issues.v |-> normalized_issue(issues.v[i])])

(***************************************************************************)
(* The history differ                                                      *)
(***************************************************************************)
\* {item["id"] for item in items}
item_ids(items) == {getitem(items.v[i], K("id")) : i \in DOMAIN items.v}

\* Faulty variant of _partition_issues: resolved_items is filtered by previous_ids.
_partition_issues_wrong_ids(current, previous) ==
    LET previous_ids == item_ids(previous)
        new_items ==
            SelectSeq(current.v, LAMBDA item : getitem(item, K("id")) \notin previous_ids)
        existing_items ==
            SelectSeq(current.v, LAMBDA item : getitem(item, K("id")) \in previous_ids)
        resolved_items ==
            SelectSeq(previous.v, LAMBDA item : getitem(item, K("id")) \notin previous_ids)
    IN <<JList(new_items), JList(existing_items), JList(resolved_items)>>

\* Returns <<new_items, existing_items, resolved_items>>.
_partition_issues(current, previous) ==
    LET previous_ids == item_ids(previous)
        current_ids == item_ids(current)
        new_items ==
            SelectSeq(current.v, LAMBDA item : getitem(item, K("id")) \notin previous_ids)
        existing_items ==
            SelectSeq(current.v, LAMBDA item : getitem(item, K("id")) \in previous_ids)
        resolved_items ==
            SelectSeq(previous.v, LAMBDA item : getitem(item, K("id")) \notin current_ids)
    IN <<JList(new_items), JList(existing_items), JList(resolved_items)>>

(***************************************************************************)
(* Files, and the run lifecycle of main                                    *)
(***************************************************************************)
Absent == [t |-> "absent", v |-> <<>>]

\* What json.load reads back from what json.dump(sort_keys=True) wrote: the
\* value with the items of every dict in ascending key order.
RECURSIVE json_document(_)
json_document(x) ==
    CASE x.t = "list" -> JList([i \in DOMAIN x.v |-> json_document(x.v[i])])
      [] x.t = "dict" ->
            LET items == sorted_items(x.v)
            IN JDict([i \in DOMAIN items |->
                        <<items[i][1], json_document(items[i][2])>>])
      [] OTHER -> x

\* The new content of the file.
_write_json(payload) == json_document(payload)

\* Faulty variant of _load_json: the history file is never found.
_load_json_never_found(file) == None

\* None when the file does not exist.
_load_json(file) == IF file = Absent THEN None ELSE file

\* --base-url, --model-id
BaseUrl == W("omni")
ModelId == W("model")

\* datetime.datetime.utcnow().isoformat() + "Z", the clock read as a tick count.
generated_at(tick) == JStr(chars("T") \o int_str(tick) \o chars("Z"))

SampleCap == 20

\* previous_payload = _load_json(args.history_in) or {}
\* previous_issues = previous_payload.get("issues", [])
main_previous_issues(file) ==
    LET loaded == _load_json(file)
        previous_payload == IF truthy(loaded) THEN loaded ELSE JDict(<<>>)
    IN get_default(previous_payload, K("issues"), JList(<<>>))

main_report(normalized, previous_issues, tick) ==
    LET parts == _partition_issues(normalized, previous_issues)
        new_items == parts[1]
        existing_items == parts[2]
        resolved_items == parts[3]
    IN JDict(<< <<K("generated_at"), generated_at(tick)>>,
                <<K("base_url"), BaseUrl>>,
                <<K("model_id"), ModelId>>,
                <<K("total_issues"), JNum(len(normalized))>>,
                <<K("new_issues"), JNum(len(new_items))>>,
                <<K("existing_issues"), JNum(len(existing_items))>>,
                <<K("resolved_issues"), JNum(len(resolved_items))>>,
                <<K("issues"), normalized>>,
                <<K("new_issue_samples"), JList(take(new_items.v, SampleCap))>>,
                <<K("existing_issue_samples"), JList(take(existing_items.v, SampleCap))>>,
                <<K("resolved_issue_samples"), JList(take(resolved_items.v, SampleCap))>> >>)

\* Faulty variant of main_history: only the issues new in this run are persisted.
main_history_new_only(normalized, report) ==
    JDict(<< <<K("generated_at"), getitem(report, K("generated_at"))>>,
             <<K("base_url"), BaseUrl>>,
             <<K("model_id"), ModelId>>,
             <<K("issues"), getitem(report, K("new_issue_samples"))>> >>)

main_history(normalized, report) ==
    JDict(<< <<K("generated_at"), getitem(report, K("generated_at"))>>,
             <<K("base_url"), BaseUrl>>,
             <<K("model_id"), ModelId>>,
             <<K("issues"), normalized>> >>)

\* Faulty variant of main_exit_code: --fail-on-new-only is ignored.
main_exit_code_ignores_mode(fail_on_new_only, report) ==
    IF getitem(report, K("total_issues")).v > 0 THEN 1 ELSE 0

main_exit_code(fail_on_new_only, report) ==
    IF fail_on_new_only
    THEN IF getitem(report, K("new_issues")).v > 0 THEN 1 ELSE 0
    ELSE IF getitem(report, K("total_issues")).v > 0 THEN 1 ELSE 0

NoRun == [payload |-> None, issues_path |-> None, fail_on_new_only |-> FALSE,
          normalized |-> JList(<<>>), exit_code |-> -1]

MaxRuns == 3

\* One call of main: payload is what the endpoint answered, issues_path and
\* fail_on_new_only are the command line's.  When _normalize_issues raises,
\* nothing is written and the interpreter ends the process with status 1;
\* otherwise main runs to its return.
main(payload, issues_path, fail_on_new_only) ==
    /\ run_count < MaxRuns
    /\ \E normalized \in {_normalize_issues(_extract_issues(payload, issues_path))} :
          IF normalized = UnicodeEncodeError
          THEN /\ exit_code' = 1
               /\ pc' = "raised"
               /\ UNCHANGED <<report_file, history_file, last_run, prior_run>>
          ELSE \E report \in {main_report(normalized, main_previous_issues(history_file),
                                          run_count)} :
                  /\ report_file' = _write_json(report)
                  /\ history_file' = _write_json(main_history(normalized, report))
                  /\ exit_code' = main_exit_code(fail_on_new_only, report)
                  /\ last_run' = [payload |-> payload, issues_path |-> issues_path,
                                  fail_on_new_only |-> fail_on_new_only,
                                  normalized |-> normalized,
                                  exit_code |-> main_exit_code(fail_on_new_only, report)]
                  /\ prior_run' = last_run
                  /\ pc' = "returned"
    /\ run_count' = run_count + 1
    /\ UNCHANGED <<input, output>>

\* "missing filter", "bad filter"
MissingFilter == JStr(chars("missing filter"))
BadFilter == JStr(chars("bad filter"))
DataProblems == JStr(chars("data.problems"))

\* The payloads the endpoint answers with.
RunPayloads ==
    { JDict(<< <<K("issues"), JList(<<MissingFilter, MissingFilter>>)>> >>),
      JDict(<< <<K("content"),
                 JList(<< JDict(<< <<K("name"), W("Doc1")>>,
                                   <<K("dashboard_filter_issues"),
                                     JList(<< JDict(<< <<K("message"), BadFilter>> >>) >>)>>
                                >>) >>)>> >>),
      JDict(<< <<K("issues"), JList(<<W("bad")>>)>> >>),
      JDict(<< <<K("issues"), JList(<<W("filter"), MissingFilter>>)>> >>),
      JDict(<< <<K("data"), JDict(<< <<K("problems"), JList(<<>>)>> >>)>>,
               <<K("issues"), JList(<<W("bad"), W("filter")>>)>> >>),
      JDict(<< <<K("data"), JDict(<< <<K("problems"), JList(<<W("filter")>>)>> >>)>>,
               <<K("errors"), JList(<<W("bad")>>)>> >>),
      JDict(<< <<K("issues"), JList(<<W("bad"), JStr(<<55296>>)>>)>> >>),
      JList(<<>>) }

RunPaths == {None, DataProblems}

\* The state of the files and of the run log before any run.
NothingRun ==
    /\ history_file = Absent
    /\ report_file = Absent
    /\ exit_code = -1
    /\ run_count = 0
    /\ last_run = NoRun
    /\ prior_run = NoRun

Init ==
    /\ NothingRun
    /\ input = None
    /\ output = None
    /\ pc = "main"

Next ==
    \E payload \in RunPayloads, issues_path \in RunPaths, fail_on_new_only \in BOOLEAN :
        main(payload, issues_path, fail_on_new_only)

Spec == Init /\ [][Next]_vars

(***************************************************************************)
(* Properties of the run lifecycle (under Spec)                            *)
(***************************************************************************)
\* The ids of a list of normalized issues, and the number of its positions
\* whose id is, or is not, in a set of ids.
IdOf(item) == getitem(item, K("id"))
IdsOf(items) == {IdOf(items.v[i]) : i \in DOMAIN items.v}
CountIn(items, ids) == Cardinality({i \in DOMAIN items.v : IdOf(items.v[i]) \in ids})
CountNotIn(items, ids) == Cardinality({i \in DOMAIN items.v : IdOf(items.v[i]) \notin ids})

\* A count of the report file.
Reported(key) == getitem(report_file, K(key)).v

\* a and b are the same JSON value: the order of a dict's items does not matter.
RECURSIVE same_json(_, _)
same_json(a, b) ==
    /\ a.t = b.t
    /\ CASE a.t = "list" ->
              /\ Len(a.v) = Len(b.v)
              /\ \A i \in DOMAIN a.v : same_json(a.v[i], b.v[i])
         [] a.t = "dict" ->
              /\ Len(a.v) = Len(b.v)
              /\ \A i \in DOMAIN a.v :
                    /\ contains(b, a.v[i][1])
                    /\ same_json(a.v[i][2], getitem(b, a.v[i][1]))
         [] OTHER -> a = b

\* C2: the diff of every run that completes is computed against the issues
\* of the completed run right before it, the one that wrote the history it
\* reads: new_issues counts the current issues whose id was not in that
\* run, existing_issues those whose id was, resolved_issues that run's issues
\* whose id is not current; the first run, with no history file, compares
\* against nothing, so all its issues are new and nothing is existing or
\* resolved.
C2_DiffAgainstPrecedingRun ==
    pc = "returned" =>
        /\ Reported("total_issues") = len(last_run.normalized)
        /\ Reported("new_issues") =
              CountNotIn(last_run.normalized, IdsOf(prior_run.normalized))
        /\ Reported("existing_issues") =
              CountIn(last_run.normalized, IdsOf(prior_run.normalized))
        /\ Reported("resolved_issues") =
              CountNotIn(prior_run.normalized, IdsOf(last_run.normalized))
        /\ prior_run = NoRun =>
              /\ Reported("new_issues") = len(last_run.normalized)
              /\ Reported("existing_issues") = 0
              /\ Reported("resolved_issues") = 0

\* Scenario C: a second run that lost one issue and gained another.
C2_Witness ==
    /\ pc = "returned"
    /\ run_count = 2
    /\ len(prior_run.normalized) = 1
    /\ Reported("new_issues") = 1
    /\ Reported("resolved_issues") = 1
    /\ Reported("existing_issues") = 0

\* C7: after a completed run the exit code follows from the report's counts and the mode only: 1
\* exactly when total_issues > 0 by default, 1 exactly when new_issues > 0
\* with --fail-on-new-only; so a run all of whose issues are in the previous
\* history exits 0 in that mode whatever total_issues is.
C7_ExitCode ==
    pc = "returned" =>
        /\ exit_code = IF last_run.fail_on_new_only
                       THEN IF Reported("new_issues") > 0 THEN 1 ELSE 0
                       ELSE IF Reported("total_issues") > 0 THEN 1 ELSE 0
        /\ ( /\ last_run.fail_on_new_only
             /\ IdsOf(last_run.normalized) \subseteq IdsOf(prior_run.normalized) )
           => exit_code = 0

C7_Witness ==
    /\ pc = "returned"
    /\ run_count > 1
    /\ last_run.fail_on_new_only
    /\ Reported("total_issues") > 0
    /\ IdsOf(last_run.normalized) \subseteq IdsOf(prior_run.normalized)
    /\ exit_code = 0

\* C10: every completed run, whatever it returns, leaves in the history
\* file exactly its own issues; so a run that fetches the payload of the run
\* before it (with the same --issues-path) reports no new and no resolved
\* issue, all its issues as existing, and returns 0 with --fail-on-new-only
\* even if the run before returned 1.
C10_HistoryHoldsCurrentIssues ==
    pc = "returned" =>
        /\ history_file # Absent
        /\ same_json(getitem(history_file, K("issues")), last_run.normalized)
        /\ ( /\ prior_run # NoRun
             /\ last_run.payload = prior_run.payload
             /\ last_run.issues_path = prior_run.issues_path )
           => /\ Reported("new_issues") = 0
              /\ Reported("resolved_issues") = 0
              /\ Reported("existing_issues") = Reported("total_issues")
              /\ last_run.fail_on_new_only => exit_code = 0

C10_Witness ==
    /\ pc = "returned"
    /\ run_count > 1
    /\ last_run.payload = prior_run.payload
    /\ last_run.issues_path = prior_run.issues_path
    /\ prior_run.exit_code = 1
    /\ last_run.fail_on_new_only
    /\ Reported("total_issues") > 0
    /\ exit_code = 0
    /\ same_json(getitem(history_file, K("issues")), last_run.normalized)

(***************************************************************************)
(* Function-level specifications: Init draws the arguments of one call     *)
(* from a bounded set, the action makes the call.                          *)
(***************************************************************************)
FnInit(inputs) ==
    /\ NothingRun
    /\ input \in inputs
    /\ output = None
    /\ pc = "call"

FnReturn(result) ==
    /\ pc = "call"
    /\ output' = result
    /\ pc' = "return"
    /\ UNCHANGED <<history_file, report_file, exit_code, run_count, last_run,
                   prior_run, input>>

\* The sequences over values of length at most n.
RECURSIVE seqs_upto(_, _)
seqs_upto(values, n) ==
    IF n = 0 THEN {<<>>}
    ELSE LET shorter == seqs_upto(values, n - 1)
         IN shorter \cup {Append(s, x) : s \in shorter, x \in values}

(***************************************************************************)
(* _partition_issues (SpecPartition)                                       *)
(***************************************************************************)
MaxIssues == 3

\* Normalized issues: "1" and 1 share an id and differ in raw.
PartitionItems ==
    {normalized_issue(raw) : raw \in {W("1"), JNum(1), W("bad"), W("filter")}}

PartitionInputs ==
    {<<JList(current), JList(previous)>> :
        current \in seqs_upto(PartitionItems, MaxIssues),
        previous \in seqs_upto(PartitionItems, MaxIssues)}

InitPartition == FnInit(PartitionInputs)

call_partition_issues == FnReturn(_partition_issues(input[1], input[2]))

SpecPartition == InitPartition /\ [][call_partition_issues]_vars

\* The positions of items whose id is in ids (inside) or is not (~inside).
Positions(items, ids, inside) ==
    {i \in DOMAIN items.v : (IdOf(items.v[i]) \in ids) = inside}

\* The elements of items at the positions pos, in ascending position.
Pick(items, pos) ==
    [k \in 1..Cardinality(pos) |->
        items.v[CHOOSE i \in pos : Cardinality({j \in pos : j <= i}) = k]]

\* C1: _partition_issues(current, previous) returns (new, existing,
\* resolved) where new and existing hold, position by position and in
\* current's order, the elements of current whose id is not, respectively
\* is, among previous' ids (so every position of current is in exactly one
\* of them), and resolved holds, in previous' order, the elements of previous
\* whose id is not among current's; no id of resolved is in new or existing.
C1_Partition ==
    pc = "return" =>
        LET current == input[1]
            previous == input[2]
        IN /\ output[1].v = Pick(current, Positions(current, IdsOf(previous), FALSE))
           /\ output[2].v = Pick(current, Positions(current, IdsOf(previous), TRUE))
           /\ output[3].v = Pick(previous, Positions(previous, IdsOf(current), FALSE))
           /\ len(output[1]) + len(output[2]) = len(current)
           /\ IdsOf(output[1]) \cap IdsOf(output[2]) = {}
           /\ IdsOf(output[3]) \cap (IdsOf(output[1]) \cup IdsOf(output[2])) = {}

\* Two entries sharing one id are both new, next to an existing and a
\* resolved issue.
C1_Witness ==
    /\ pc = "return"
    /\ len(output[1]) = 2
    /\ IdOf(output[1].v[1]) = IdOf(output[1].v[2])
    /\ len(output[2]) = 1
    /\ len(output[3]) = 1

(***************************************************************************)
(* _issue_identity (SpecIdentity)                                          *)
(***************************************************************************)
MaxValueLen == 2

\* The item sequences of the dicts with at most n of the given keys, inserted
\* in any order, with values from vals.
RECURSIVE dicts_upto(_, _, _)
dicts_upto(keys, vals, n) ==
    IF n = 0 THEN {<<>>}
    ELSE LET smaller == dicts_upto(keys, vals, n - 1)
         IN smaller \cup
            UNION {{Append(d, <<k, x>>) :
                        k \in {key \in keys : \A i \in DOMAIN d : d[i][1] # key},
                        x \in vals} :
                   d \in {e \in smaller : Len(e) = n - 1}}

IdentityLeaves == {JNum(1), W("1"), W("bad")}
IdentityKeys == {K("message"), K("names"), K("name")}

\* Strings that spell the compact serialization of another value; the other
\* strings of IdentityValues are "", "\xe9\r" and the lone surrogate "\ud800".
SerializationLookalikes ==
    { W("null"), W("true"), JStr(chars("[1]")), JStr(chars("{}")),
      JStr(chars("\"bad\"")),
      JStr(chars("{\"message\":1}")) }

IdentityValues ==
    {None, JBool(TRUE), JBool(FALSE), JNum(0), JNum(12), JNum(-1), JStr(<<>>),
     JStr(<<233, 13>>), JStr(<<55296>>)}
    \cup IdentityLeaves
    \cup SerializationLookalikes
    \cup {JList(items) : items \in seqs_upto(IdentityLeaves, MaxValueLen)}
    \cup {JDict(items) : items \in dicts_upto(IdentityKeys, IdentityLeaves, MaxValueLen)}
    \cup {JDict(<< <<K("raw"), JDict(items)>> >>) :
            items \in {d \in dicts_upto(IdentityKeys, {JNum(1), W("bad")}, 2) : Len(d) = 2}}

InitIdentity == FnInit(IdentityValues \X IdentityValues)

call_issue_identity == FnReturn(<<_issue_identity(input[1]), _issue_identity(input[2])>>)

SpecIdentity == InitIdentity /\ [][call_issue_identity]_vars

\* The canonical serialization of a value: sorted keys, no whitespace.
CanonicalSerialization(x) == json_dumps(x, TRUE, CompactItemSep, CompactKeySep)

\* C4: for all raw issue values, strings included, _issue_identity computes
\* an id for each, and the two ids are equal if the canonical serializations
\* of the values are equal and different if they are not, also between a
\* string and a value of another type.
C4_AsClaimed ==
    pc = "return" =>
        /\ output[1] # UnicodeEncodeError
        /\ output[2] # UnicodeEncodeError
        /\ (output[1] = output[2]) =
              (CanonicalSerialization(input[1]) = CanonicalSerialization(input[2]))

(***************************************************************************)
(* _issue_summary (SpecSummary)                                            *)
(***************************************************************************)
MaxFields == 3

\* The item sequences of the dicts that hold at most n of the given fields,
\* in the order given; fields is a sequence of <<key, set of values>>.
RECURSIVE dicts_over(_, _)
dicts_over(fields, n) ==
    IF fields = <<>> \/ n = 0 THEN {<<>>}
    ELSE dicts_over(Tail(fields), n) \cup
         {<< <<Head(fields)[1], x>> >> \o rest :
             x \in Head(fields)[2], rest \in dicts_over(Tail(fields), n - 1)}

\* " ", "\r\f" and "\r Doc1\xa0\n"
Blanks == JStr(chars(" "))
ReturnFeed == JStr(<<13, 12>>)
PaddedDoc1 == JStr(<<13>> \o chars(" Doc1") \o <<160, 10>>)

SummaryFields ==
    << <<K("message"), {BadFilter, JStr(<<>>), Blanks, ReturnFeed, JNum(0), JNum(-1), None,
                        JList(<<W("bad")>>)}>>,
       <<K("document_name"), {W("Doc1"), PaddedDoc1, Blanks, JNum(1)}>>,
       <<K("query_name"), {W("q1"), JStr(<<>>)}>>,
       <<K("title"), {W("T"), ReturnFeed, JNum(2)}>>,
       <<K("name"), {W("N"), JStr(<<>>)}>>,
       <<K("path"), {W("P")}>>,
       <<K("field"), {JStr(chars("F "))}>> >>

\* Scenario B's payload, whose content yields one document-tree record.
ScenarioB ==
    JDict(<< <<K("content"),
               JList(<< JDict(<< <<K("name"), W("Doc1")>>,
                                 <<K("dashboard_filter_issues"),
                                   JList(<< JDict(<< <<K("message"), BadFilter>> >>) >>)>>
                              >>) >>)>> >>)

SummaryIssues ==
    {JStr(<<>>), Blanks, BadFilter, None, JBool(TRUE), JBool(FALSE), JNum(0), JNum(12),
     JList(<<>>), JList(<<W("bad"), JNum(1), None>>)}
    \cup {JDict(items) : items \in dicts_over(SummaryFields, MaxFields)}
    \cup {_collect_content_issues(ScenarioB).v[1]}

InitSummary == FnInit(SummaryIssues)

call_issue_summary == FnReturn(_issue_summary(input))

SpecSummary == InitSummary /\ [][call_issue_summary]_vars

\* A text of whitespace only, or of nothing.
IsBlank(text) == \A i \in DOMAIN text : isspace(text[i])

\* The summary rules, in order, as a relation between an issue and its
\* summary.  With blank_is_missing a text counts only if it is not blank and
\* a prefix part enters without its surrounding whitespace; without it a
\* text counts if it is not empty and a prefix part enters as it is.
SummaryRules(issue, summary, blank_is_missing) ==
    LET Void(text) == IF blank_is_missing THEN IsBlank(text) ELSE text = <<>>
        Trim(text) == IF blank_is_missing THEN strip(text) ELSE text
    IN
    /\ isinstance_str(issue) => summary = issue.v
    /\ isinstance_dict(issue) =>
          LET message == get(issue, K("message"))
              text == IF isinstance_str(message) THEN message.v ELSE str(message)
              usable == message # None /\ ~Void(text)
              Part(key) == IF isinstance_str(get(issue, key)) /\ ~Void(get(issue, key).v)
                           THEN <<Trim(get(issue, key).v)>> ELSE <<>>
              parts == Part(K("document_name")) \o Part(K("query_name"))
              labels == <<K("title"), K("name"), K("path"), K("field")>>
              Labelled(i) == /\ isinstance_str(get(issue, labels[i]))
                             /\ ~Void(get(issue, labels[i]).v)
          IN /\ (usable /\ Len(parts) = 0) => summary = text
             /\ (usable /\ Len(parts) = 1) => summary = parts[1] \o chars(": ") \o text
             /\ (usable /\ Len(parts) = 2) =>
                   summary = parts[1] \o chars(" / ") \o parts[2] \o chars(": ") \o text
             /\ \A i \in 1..4 :
                   (~usable /\ Labelled(i) /\ \A j \in 1..(i - 1) : ~Labelled(j))
                      => summary = get(issue, labels[i]).v
             /\ (~usable /\ \A i \in 1..4 : ~Labelled(i))
                   => summary = json_dumps(issue, TRUE, DefaultItemSep, DefaultKeySep)
    /\ (~isinstance_str(issue) /\ ~isinstance_dict(issue)) => summary = str(issue)

\* A record of document "Doc1" with message "bad filter" and no query.
IsDoc1BadFilter(issue) ==
    /\ isinstance_dict(issue)
    /\ get(issue, K("message")) = BadFilter
    /\ get(issue, K("document_name")) = W("Doc1")
    /\ get(issue, K("query_name")) = None

\* C8 as amended: _issue_summary follows the claimed rules in the claimed
\* order, where a message, a document_name, a query_name or a title, name,
\* path or field counts only if it is not blank (empty or whitespace only),
\* and document_name and query_name enter the prefix with their surrounding
\* whitespace removed; the message and the title, name, path or field are
\* given as they are.  A document-tree record of document "Doc1" with message
\* "bad filter" has the summary "Doc1: bad filter".
C8_Summary ==
    pc = "return" =>
        /\ SummaryRules(input, output, TRUE)
        /\ IsDoc1BadFilter(input) => output = chars("Doc1: bad filter")

C8_Witness ==
    /\ pc = "return"
    /\ input = _collect_content_issues(ScenarioB).v[1]
    /\ output = chars("Doc1: bad filter")

\* C8 as claimed: a value counts when it is not empty, and the prefix is
\* made of document_name and query_name as they are.
C8_AsClaimed ==
    pc = "return" =>
        /\ SummaryRules(input, output, FALSE)
        /\ IsDoc1BadFilter(input) => output = chars("Doc1: bad filter")

(***************************************************************************)
(* _extract_issues (SpecExtract)                                           *)
(***************************************************************************)
MaxKeys == 3

\* A list that names the key it is found under.
Under(word) == JList(<<W(word)>>)

\* A document that yields one record, and one that yields none.
DocWithIssue ==
    JDict(<< <<K("name"), W("Doc1")>>,
             <<K("dashboard_filter_issues"), JList(<<BadFilter>>)>> >>)
DocWithoutIssue == JDict(<< <<K("name"), W("Doc2")>> >>)

ExtractFields ==
    << <<K("issues"), {Under("issues"), JList(<<>>), W("bad")}>>,
       <<K("validation_issues"), {Under("validation_issues"), JList(<<>>), None}>>,
       <<K("errors"), {Under("errors"), JList(<<>>), JNum(1)}>>,
       <<K("content"), {JList(<<DocWithIssue, DocWithoutIssue>>), JList(<<DocWithoutIssue>>),
                        JList(<<>>), W("bad")}>>,
       <<K("documents"), {Under("documents"), None}>>,
       <<K("items"), {Under("items"), JDict(<<>>)}>>,
       <<K("results"), {Under("results"), W("bad")}>>,
       <<K("data"), {JDict(<< <<K("problems"), Under("problems")>> >>),
                     JDict(<< <<K("problems"), JList(<<>>)>> >>),
                     JDict(<< <<K("problems"), W("bad")>> >>),
                     JDict(<< <<<<>>, Under("data")>> >>),
                     Under("data"),
                     W("bad")}>>,
       <<<<>>, {Under("1"), JDict(<< <<<<>>, Under("2")>> >>)}>> >>

ExtractPayloads ==
    {JDict(items) : items \in dicts_over(ExtractFields, MaxKeys)}
    \cup {JList(<<W("bad"), W("filter")>>), JList(<<>>), None, W("bad"), JNum(1)}

\* None, "", "data.problems", "data", "issues", ".", "data.",
\* "data.problems.1", "problems", "errors"
ExtractPaths ==
    { None, JStr(<<>>), DataProblems, W("data"), W("issues"), W("."),
      JStr(chars("data.")), JStr(chars("data.problems.1")),
      W("problems"), W("errors") }

InitExtract == FnInit(ExtractPayloads \X ExtractPaths)

call_extract_issues == FnReturn(_extract_issues(input[1], input[2]))

SpecExtract == InitExtract /\ [][call_extract_issues]_vars

\* What the traversal of a path ends at: the value reached by descending
\* through nested objects, or Missing where a step cannot be taken.
Missing == [t |-> "missing", v |-> <<>>]

RECURSIVE Traverse(_, _)
Traverse(value, parts) ==
    IF parts = <<>> THEN value
    ELSE IF value.t = "dict" /\ \E i \in DOMAIN value.v : value.v[i][1] = Head(parts)
         THEN Traverse(getitem(value, Head(parts)), Tail(parts))
         ELSE Missing

\* An explicit path is a non-empty string (an empty --issues-path counts as none).
PathGiven(path) == isinstance_str(path) /\ path.v # <<>>
PathTarget(payload, path) == Traverse(payload, split(path.v, chars(".")))
PathMatches(payload, path) == PathGiven(path) /\ PathTarget(payload, path).t = "list"

\* C3: when the traversal of an explicit path ends at a sequence,
\* _extract_issues returns exactly that sequence, empty or not, whatever
\* else the payload holds.
C3_ExplicitPathWins ==
    pc = "return" =>
        (PathMatches(input[1], input[2]) => output = PathTarget(input[1], input[2]))

\* Scenario D with other candidates around: the match is empty and wins
\* over a non-empty issues list.
C3_Witness ==
    /\ pc = "return"
    /\ PathMatches(input[1], input[2])
    /\ output = JList(<<>>)
    /\ isinstance_dict(input[1])
    /\ get(input[1], K("issues")) = Under("issues")

\* The first position of keys whose value in payload is a list; 0 if none.
FirstListAt(payload, keys) ==
    IF \E i \in DOMAIN keys : get(payload, keys[i]).t = "list"
    THEN CHOOSE i \in DOMAIN keys :
            /\ get(payload, keys[i]).t = "list"
            /\ \A j \in 1..(i - 1) : get(payload, keys[j]).t # "list"
    ELSE 0

\* C5: when the explicit path did not match, a payload that is a sequence is
\* returned itself and any other payload that is not an object gives the
\* empty sequence; for an object the first rule that applies decides: the
\* first of issues, validation_issues, errors whose value is a sequence;
\* else the document-tree records, if content is a sequence and there is at
\* least one; else the first of content, documents, items, results whose
\* value is a sequence; else the empty sequence.
C5_RulePriority ==
    (pc = "return" /\ ~PathMatches(input[1], input[2])) =>
        LET payload == input[1]
            issue_keys == <<K("issues"), K("validation_issues"), K("errors")>>
            container_keys == <<K("content"), K("documents"), K("items"), K("results")>>
            a == FirstListAt(payload, issue_keys)
            harvest == _collect_content_issues(payload)
            b == get(payload, K("content")).t = "list" /\ len(harvest) > 0
            c == FirstListAt(payload, container_keys)
        IN /\ payload.t = "list" => output = payload
           /\ payload.t \notin {"list", "dict"} => output = JList(<<>>)
           /\ payload.t = "dict" =>
                /\ a > 0 => output = get(payload, issue_keys[a])
                /\ (a = 0 /\ b) => output = harvest
                /\ (a = 0 /\ ~b /\ c > 0) => output = get(payload, container_keys[c])
                /\ (a = 0 /\ ~b /\ c = 0) => output = JList(<<>>)

\* A content sequence with nothing to harvest is returned as it is, ahead
\* of a documents list; issues is present but not a sequence.
C5_Witness ==
    /\ pc = "return"
    /\ ~PathMatches(input[1], input[2])
    /\ isinstance_dict(input[1])
    /\ get(input[1], K("issues")) = W("bad")
    /\ get(input[1], K("documents")) = Under("documents")
    /\ output = JList(<<DocWithoutIssue>>)

\* C6: the result is always a sequence; and when an explicit path's
\* traversal cannot complete, or ends at a value that is not a sequence, the
\* result is what the same payload gives with no explicit path.
C6_FailedPathFallsThrough ==
    pc = "return" =>
        /\ output.t = "list"
        /\ (PathGiven(input[2]) /\ ~PathMatches(input[1], input[2]))
             => output = _extract_issues(input[1], None)

\* The path runs into a sequence half way ("data.problems", data a list)
\* and the issues list is returned.
C6_Witness ==
    /\ pc = "return"
    /\ input[2] = DataProblems
    /\ isinstance_dict(input[1])
    /\ get(input[1], K("data")) = Under("data")
    /\ output = Under("issues")

(***************************************************************************)
(* _collect_content_issues (SpecCollect)                                   *)
(***************************************************************************)
MaxDocs == 2

MessageItem == JDict(<< <<K("message"), BadFilter>>, <<K("path"), W("P")>> >>)

Query(name, issues) ==
    JDict(<< <<K("query_name"), W(name)>>,
             <<K("query_presentation_id"), JNum(12)>>,
             <<K("issues"), issues>> >>)

\* What a document can hold besides its name and folder.
DocumentFields ==
    << <<K("dashboard_filter_issues"),
         { W("bad"),
           JList(<<W("filter")>>),
           JList(<<MessageItem, W("bad"), JNum(1)>>) }>>,
       <<K("queries_and_issues"),
         { None,
           JList(<<Query("q1", JList(<<W("missing")>>))>>),
           JList(<< W("q1"),
                    Query("q1", JList(<<W("bad"), MessageItem>>)),
                    Query("q2", W("bad")),
                    JDict(<< <<K("issues"), JList(<<JDict(<<>>)>>)>> >>) >>) }>> >>

DocumentHeads ==
    { << <<K("document_id"), JNum(1)>>, <<K("name"), W("Doc1")>>,
         <<K("type"), W("dashboard")>>,
         <<K("folder"), JDict(<< <<K("name"), W("F")>>, <<K("path"), W("P")>> >>)>> >>,
      << <<K("name"), W("Doc2")>>, <<K("folder"), W("F")>> >> }

Documents ==
    {JDict(head \o body) : head \in DocumentHeads, body \in dicts_over(DocumentFields, 2)}
    \cup {W("bad")}

CollectPayloads ==
    {JDict(<< <<K("content"), JList(docs)>> >>) : docs \in seqs_upto(Documents, MaxDocs)}
    \cup {JDict(<<>>), JDict(<< <<K("content"), W("bad")>> >>)}

InitCollect == FnInit(CollectPayloads)

call_collect_content_issues == FnReturn(_collect_content_issues(input))

SpecCollect == InitCollect /\ [][call_collect_content_issues]_vars

\* The elements of the sequence under key of object x; none if x is not an
\* object or the value is not a sequence.
ElementsAt(x, key) ==
    IF x.t = "dict" /\ get(x, key).t = "list" THEN get(x, key).v ELSE <<>>

\* The places an issue item can be harvested from: <<d, 0, 0, k>> is item k
\* of dashboard_filter_issues of document d, <<d, 1, q, k>> item k of the
\* issues of query q of document d.
Slots(content) ==
    UNION {
        {<<d, 0, 0, k>> : k \in DOMAIN ElementsAt(content[d], K("dashboard_filter_issues"))}
        \cup
        UNION {{<<d, 1, q, k>> :
                    k \in DOMAIN ElementsAt(
                              ElementsAt(content[d], K("queries_and_issues"))[q],
                              K("issues"))} :
               q \in DOMAIN ElementsAt(content[d], K("queries_and_issues"))}
        : d \in DOMAIN content}

\* Payload order: by document, dashboard filters before queries, by query,
\* by item.
SlotBefore(a, b) ==
    \E i \in 1..4 : a[i] < b[i] /\ \A j \in 1..(i - 1) : a[j] = b[j]

SlotItem(content, slot) ==
    IF slot[2] = 0
    THEN ElementsAt(content[slot[1]], K("dashboard_filter_issues"))[slot[4]]
    ELSE ElementsAt(ElementsAt(content[slot[1]], K("queries_and_issues"))[slot[3]],
                    K("issues"))[slot[4]]

\* What the record harvested from a slot has to carry.
RecordOf(record, content, slot) ==
    LET document == content[slot[1]]
        item == SlotItem(content, slot)
        folder == get(document, K("folder"))
    IN /\ getitem(record, K("raw_issue")) = item
       /\ item.t = "dict" => getitem(record, K("message")) = get(item, K("message"))
       /\ item.t = "str" => getitem(record, K("message")) = item
       /\ getitem(record, K("issue_type")) =
             IF slot[2] = 0 THEN W("dashboard_filter") ELSE W("query")
       /\ getitem(record, K("document_id")) = get(document, K("document_id"))
       /\ getitem(record, K("document_name")) = get(document, K("name"))
       /\ getitem(record, K("document_type")) = get(document, K("type"))
       /\ getitem(record, K("folder_name")) =
             IF folder.t = "dict" THEN get(folder, K("name")) ELSE None
       /\ getitem(record, K("folder_path")) =
             IF folder.t = "dict" THEN get(folder, K("path")) ELSE None
       /\ slot[2] = 1 =>
             LET query == ElementsAt(document, K("queries_and_issues"))[slot[3]]
             IN /\ getitem(record, K("query_name")) = get(query, K("query_name"))
                /\ getitem(record, K("query_presentation_id")) =
                      get(query, K("query_presentation_id"))

\* C9: _collect_content_issues returns one record per item of every
\* dashboard_filter_issues sequence and of every issues sequence of every
\* query object of the documents, and nothing else, in payload order
\* (documents; in a document dashboard filters, then queries in order; items
\* in order); each record carries the item as raw_issue, its message, its
\* issue_type, and the context of its document (and query).
C9_DocumentTree ==
    pc = "return" =>
        LET content == ElementsAt(input, K("content"))
            slots == Slots(content)
        IN /\ output.t = "list"
           /\ len(output) = Cardinality(slots)
           /\ \A slot \in slots :
                 RecordOf(output.v[1 + Cardinality({s \in slots : SlotBefore(s, slot)})],
                          content, slot)

\* Two documents, the first with dashboard and query records, the second
\* with a record after them.
C9_Witness ==
    /\ pc = "return"
    /\ len(output) >= 5
    /\ getitem(output.v[1], K("issue_type")) = W("dashboard_filter")
    /\ getitem(output.v[1], K("document_name")) = W("Doc1")
    /\ getitem(output.v[4], K("issue_type")) = W("query")
    /\ getitem(output.v[4], K("document_name")) = W("Doc1")
    /\ getitem(output.v[len(output)], K("document_name")) = W("Doc2")

====
